---- MODULE Spec2Model ----
(***************************************************************************)
(* Model of the two computation units of the KRISHI-AI backend:            *)
(*   - POST /api/soil-analysis     (src/mainroute.srver.ts, 292-365)       *)
(*   - GET  /api/weather/:location (src/mainroute.srver.ts, 115-150) and   *)
(*     WeatherService              (src/weather-service.ts)                *)
(*                                                                         *)
(* Units.  JavaScript numbers with one decimal are carried as integers in  *)
(* tenths: pH 6.0 is 60, organic matter 2.5 % is 25, a temperature of      *)
(* 24.5 degrees is 245, a wind speed of 2.5 m/s is 25.  Nitrogen,          *)
(* phosphorus and potassium are integers in their own unit.                *)
(***************************************************************************)
EXTENDS Integers, Sequences, FiniteSets, TLC

(***************************************************************************)
(* JavaScript values that are not numbers                                  *)
(***************************************************************************)
\* a numeric field absent from the request body, a numeric property absent
\* from an object: an integer no number of the model takes
Undefined == 0 - 1000000

\* the result of Math.round(undefined): an integer no number of the model takes
NaN == 0 - 1000001

\* null in an array of strings, and a string property that is absent
None == "null"

\* x >= c as JavaScript evaluates it: false when x is undefined or NaN
GE(x, c) == x # Undefined /\ x # NaN /\ x >= c

\* x <= c as JavaScript evaluates it: false when x is undefined or NaN
LE(x, c) == x # Undefined /\ x # NaN /\ x <= c

\* x < c as JavaScript evaluates it: false when x is undefined or NaN
LT(x, c) == x # Undefined /\ x # NaN /\ x < c

\* x > c as JavaScript evaluates it: false when x is undefined or NaN
GT(x, c) == x # Undefined /\ x # NaN /\ x > c

\* Math.min on two numbers
MathMin(a, b) == IF a <= b THEN a ELSE b

\* Math.max on two numbers
MathMax(a, b) == IF a >= b THEN a ELSE b

(***************************************************************************)
(* Bounds of the soil samples                                              *)
(***************************************************************************)
\* largest pH of a sample, in tenths (pH 14.0)
MaxPH == 140

\* largest nitrogen value of a sample
MaxNitrogen == 400

\* largest phosphorus value of a sample
MaxPhosphorus == 60

\* largest potassium value of a sample
MaxPotassium == 300

\* largest organic matter of a sample, in tenths of a percent
MaxOrganicMatter == 40

\* v is the first value of a band or the last value below it
AtBandEdge(v, firsts) == v \in firsts \/ v + 1 \in firsts

\* the sampled values of a field: the two values at every band edge, the
\* largest value, and the absent field
Samples(max, firsts) ==
    {v \in 0..max : AtBandEdge(v, firsts) \/ v = max} \cup {Undefined}

\* the band edges are the thresholds of the score and of the advisories:
\* a band that ends at 7.5 inclusive has its edge at 7.6
PHValues == Samples(MaxPH, {55, 60, 76, 81})
NitrogenValues == Samples(MaxNitrogen, {100, 150, 301})
PhosphorusValues == Samples(MaxPhosphorus, {10, 15, 41})
PotassiumValues == Samples(MaxPotassium, {80, 120, 251})
OrganicMatterValues == Samples(MaxOrganicMatter, {15, 20, 25})

\* the scored part of req.body
SoilBodies ==
    [pH : PHValues, nitrogen : NitrogenValues, phosphorus : PhosphorusValues,
     potassium : PotassiumValues, organicMatter : OrganicMatterValues]

(***************************************************************************)
(* POST /api/soil-analysis                                                 *)
(***************************************************************************)
\* the entries of soilAnalysis.recommendations and soilAnalysis.alerts
NitrogenAdvice == "nitrogen deficiency - apply urea or vermicompost"
PhosphorusAdvice == "phosphorus deficiency - use SSP or DAP"
PotassiumAdvice == "potash deficiency - apply MOP or SOP"
AcidityAdvice == "add lime to the soil - to reduce acidity"
AlkalinityAdvice == "use gypsum - to reduce alkalinity"
OrganicMatterAdvice == "increase organic manure - add dung manure or compost"
UreaAdvice == "Apply urea (46-0-0) at 120-150 kg/hectare"
CriticalAlert == "soil condition is poor - immediate improvement needed"

\* pH score (optimal: 6.0-7.5)
ScorePH(pH) ==
    IF GE(pH, 60) /\ LE(pH, 75) THEN 20
    ELSE IF GE(pH, 55) /\ LE(pH, 80) THEN 15
    ELSE 5

ScoreNitrogenStrictUpper(nitrogen) ==
    IF GE(nitrogen, 150) /\ LT(nitrogen, 300) THEN 20
    ELSE IF GE(nitrogen, 100) THEN 10
    ELSE 0

ScoreNitrogenPenalty(nitrogen) ==
    IF GE(nitrogen, 150) /\ LE(nitrogen, 300) THEN 20
    ELSE IF GE(nitrogen, 100) THEN 10
    ELSE 0 - 20

\* NPK scores: nitrogen
ScoreNitrogen(nitrogen) ==
    IF GE(nitrogen, 150) /\ LE(nitrogen, 300) THEN 20
    ELSE IF GE(nitrogen, 100) THEN 10
    ELSE 0

\* NPK scores: phosphorus
ScorePhosphorus(phosphorus) ==
    IF GE(phosphorus, 15) /\ LE(phosphorus, 40) THEN 20
    ELSE IF GE(phosphorus, 10) THEN 10
    ELSE 0

\* NPK scores: potassium
ScorePotassium(potassium) ==
    IF GE(potassium, 120) /\ LE(potassium, 250) THEN 20
    ELSE IF GE(potassium, 80) THEN 10
    ELSE 0

ScoreOrganicMatterStrict(organicMatter) ==
    IF GT(organicMatter, 25) THEN 20
    ELSE IF GE(organicMatter, 15) THEN 15
    ELSE 5

\* Organic matter score (optimal: >2.5%)
ScoreOrganicMatter(organicMatter) ==
    IF GE(organicMatter, 25) THEN 20
    ELSE IF GE(organicMatter, 15) THEN 15
    ELSE 5

\* the local variable healthScore after the five criteria
HealthScore(body) ==
    ScorePH(body.pH) + ScoreNitrogen(body.nitrogen)
    + ScorePhosphorus(body.phosphorus) + ScorePotassium(body.potassium)
    + ScoreOrganicMatter(body.organicMatter)

\* Array.prototype.filter(Boolean) on an array of strings and nulls
FilterBoolean(array) == SelectSeq(array, LAMBDA e : e # None)

RecommendationsPHFirst(body) ==
    FilterBoolean(<<
        IF LT(body.pH, 60) THEN AcidityAdvice ELSE None,
        IF GT(body.pH, 80) THEN AlkalinityAdvice ELSE None,
        IF LT(body.nitrogen, 150) THEN NitrogenAdvice ELSE None,
        IF LT(body.phosphorus, 15) THEN PhosphorusAdvice ELSE None,
        IF LT(body.potassium, 120) THEN PotassiumAdvice ELSE None,
        IF LT(body.organicMatter, 20) THEN OrganicMatterAdvice ELSE None,
        UreaAdvice >>)

RecommendationsByBand(body) ==
    FilterBoolean(<<
        IF LT(body.nitrogen, 100) THEN NitrogenAdvice ELSE None,
        IF LT(body.phosphorus, 15) THEN PhosphorusAdvice ELSE None,
        IF LT(body.potassium, 120) THEN PotassiumAdvice ELSE None,
        IF LT(body.pH, 60) THEN AcidityAdvice ELSE None,
        IF GT(body.pH, 80) THEN AlkalinityAdvice ELSE None,
        IF LT(body.organicMatter, 20) THEN OrganicMatterAdvice ELSE None,
        UreaAdvice >>)

\* soilAnalysis.recommendations
Recommendations(body) ==
    FilterBoolean(<<
        IF LT(body.nitrogen, 150) THEN NitrogenAdvice ELSE None,
        IF LT(body.phosphorus, 15) THEN PhosphorusAdvice ELSE None,
        IF LT(body.potassium, 120) THEN PotassiumAdvice ELSE None,
        IF LT(body.pH, 60) THEN AcidityAdvice ELSE None,
        IF GT(body.pH, 80) THEN AlkalinityAdvice ELSE None,
        IF LT(body.organicMatter, 20) THEN OrganicMatterAdvice ELSE None,
        UreaAdvice >>)

AlertsAtFifty(healthScore) ==
    IF healthScore <= 50 THEN <<CriticalAlert>> ELSE <<>>

\* soilAnalysis.alerts, from the local variable healthScore
Alerts(healthScore) ==
    IF healthScore < 50 THEN <<CriticalAlert>> ELSE <<>>

\* the JSON the handler sends: everything that depends on the scored fields
SoilResponse(body) ==
    [status |-> 200,
     success |-> TRUE,
     healthScore |-> MathMin(HealthScore(body), 100),
     recommendations |-> Recommendations(body),
     alerts |-> Alerts(HealthScore(body))]

(***************************************************************************)
(* Strings that the code inspects character by character are sequences of  *)
(* one-character strings.                                                  *)
(***************************************************************************)
UpperLetters == <<"A", "B", "C", "D", "E", "F", "G", "H", "I", "J", "K", "L", "M", "N", "O", "P", "Q", "R", "S", "T", "U", "V", "W", "X", "Y", "Z">>
LowerLetters == <<"a", "b", "c", "d", "e", "f", "g", "h", "i", "j", "k", "l", "m", "n", "o", "p", "q", "r", "s", "t", "u", "v", "w", "x", "y", "z">>

\* the lower-case letter of every upper-case letter, and the reverse
LowerOf == [c \in {UpperLetters[i] : i \in 1..26} |->
              LowerLetters[CHOOSE i \in 1..26 : UpperLetters[i] = c]]
UpperOf == [c \in {LowerLetters[i] : i \in 1..26} |->
              UpperLetters[CHOOSE i \in 1..26 : LowerLetters[i] = c]]

\* String.prototype.toLowerCase, one character
ToLowerChar(c) == IF c \in DOMAIN LowerOf THEN LowerOf[c] ELSE c

\* String.prototype.toUpperCase, one character
ToUpperChar(c) == IF c \in DOMAIN UpperOf THEN UpperOf[c] ELSE c

\* String.prototype.toLowerCase
ToLowerCase(str) == [i \in 1..Len(str) |-> ToLowerChar(str[i])]

\* String.prototype.trim: the string without its leading and trailing blanks
Trim(str) ==
    LET kept == {i \in 1..Len(str) : str[i] # " "}
    IN  IF kept = {} THEN <<>>
        ELSE SubSeq(str, CHOOSE i \in kept : \A j \in kept : i <= j,
                         CHOOSE i \in kept : \A j \in kept : i >= j)

\* location.charAt(0).toUpperCase() + location.slice(1)
Capitalize(str) ==
    IF str = <<>> THEN <<>> ELSE <<ToUpperChar(str[1])>> \o Tail(str)

(***************************************************************************)
(* WeatherService                                                          *)
(***************************************************************************)
\* private indianCities
indianCities ==
    (<<"m", "u", "m", "b", "a", "i">> :> <<"M", "u", "m", "b", "a", "i", ",", "I", "N">>) @@
    (<<"d", "e", "l", "h", "i">> :> <<"D", "e", "l", "h", "i", ",", "I", "N">>) @@
    (<<"b", "a", "n", "g", "a", "l", "o", "r", "e">> :> <<"B", "a", "n", "g", "a", "l", "o", "r", "e", ",", "I", "N">>) @@
    (<<"h", "y", "d", "e", "r", "a", "b", "a", "d">> :> <<"H", "y", "d", "e", "r", "a", "b", "a", "d", ",", "I", "N">>) @@
    (<<"p", "u", "n", "e">> :> <<"P", "u", "n", "e", ",", "I", "N">>) @@
    (<<"k", "o", "l", "k", "a", "t", "a">> :> <<"K", "o", "l", "k", "a", "t", "a", ",", "I", "N">>) @@
    (<<"c", "h", "e", "n", "n", "a", "i">> :> <<"C", "h", "e", "n", "n", "a", "i", ",", "I", "N">>) @@
    (<<"a", "h", "m", "e", "d", "a", "b", "a", "d">> :> <<"A", "h", "m", "e", "d", "a", "b", "a", "d", ",", "I", "N">>) @@
    (<<"j", "a", "i", "p", "u", "r">> :> <<"J", "a", "i", "p", "u", "r", ",", "I", "N">>) @@
    (<<"l", "u", "c", "k", "n", "o", "w">> :> <<"L", "u", "c", "k", "n", "o", "w", ",", "I", "N">>) @@
    (<<"k", "a", "n", "p", "u", "r">> :> <<"K", "a", "n", "p", "u", "r", ",", "I", "N">>) @@
    (<<"n", "a", "g", "p", "u", "r">> :> <<"N", "a", "g", "p", "u", "r", ",", "I", "N">>) @@
    (<<"i", "n", "d", "o", "r", "e">> :> <<"I", "n", "d", "o", "r", "e", ",", "I", "N">>) @@
    (<<"t", "h", "a", "n", "e">> :> <<"T", "h", "a", "n", "e", ",", "I", "N">>) @@
    (<<"b", "h", "o", "p", "a", "l">> :> <<"B", "h", "o", "p", "a", "l", ",", "I", "N">>) @@
    (<<"v", "i", "s", "a", "k", "h", "a", "p", "a", "t", "n", "a", "m">> :> <<"V", "i", "s", "a", "k", "h", "a", "p", "a", "t", "n", "a", "m", ",", "I", "N">>)

\* const baseTemps, in getReliableWeatherData
baseTemps ==
    (<<"m", "u", "m", "b", "a", "i">> :> 29) @@
    (<<"d", "e", "l", "h", "i">> :> 25) @@
    (<<"b", "a", "n", "g", "a", "l", "o", "r", "e">> :> 24) @@
    (<<"h", "y", "d", "e", "r", "a", "b", "a", "d">> :> 28) @@
    (<<"p", "u", "n", "e">> :> 26) @@
    (<<"k", "o", "l", "k", "a", "t", "a">> :> 27) @@
    (<<"c", "h", "e", "n", "n", "a", "i">> :> 30) @@
    (<<"a", "h", "m", "e", "d", "a", "b", "a", "d">> :> 32) @@
    (<<"j", "a", "i", "p", "u", "r">> :> 28) @@
    (<<"l", "u", "c", "k", "n", "o", "w">> :> 26) @@
    (<<"p", "a", "t", "n", "a">> :> 26) @@
    (<<"b", "h", "o", "p", "a", "l">> :> 25) @@
    (<<"i", "n", "d", "o", "r", "e">> :> 27) @@
    (<<"n", "a", "g", "p", "u", "r">> :> 28) @@
    (<<"r", "a", "i", "p", "u", "r">> :> 26)

\* the methods the class WeatherService declares
WeatherServiceMethods ==
    {"normalizeLocation", "getCurrentWeather", "getReliableWeatherData",
     "getSeasonalDescription", "getAgriculturalInsights",
     "getCropRecommendations"}

normalizeLocationNoLookup(location) == location \o <<",", "I", "N">>

\* private normalizeLocation(location)
normalizeLocation(location) ==
    LET normalized == Trim(ToLowerCase(location))
    IN  IF normalized \in DOMAIN indianCities THEN indianCities[normalized]
        ELSE location \o <<",", "I", "N">>

\* the values Math.floor(Math.random() * n) can take
RandomInt(n) == 0..(n - 1)

\* const descriptions, in getSeasonalDescription
descriptions ==
    [winter |-> <<"clear sky", "few clouds", "mist", "haze">>,
     summer |-> <<"clear sky", "scattered clouds", "haze", "hot">>,
     monsoon |-> <<"light rain", "moderate rain", "overcast clouds",
                   "thunderstorm">>,
     postMonsoon |-> <<"clear sky", "few clouds", "partly cloudy">>]

\* the season getSeasonalDescription picks for month = getMonth() + 1
SeasonOf(month) ==
    IF month >= 12 \/ month <= 2 THEN "winter"
    ELSE IF month >= 6 /\ month <= 9 THEN "monsoon"
    ELSE IF month >= 10 /\ month <= 11 THEN "postMonsoon"
    ELSE "summer"

\* the strings getSeasonalDescription can return when Date.getMonth() is
\* getMonth
getSeasonalDescription(getMonth) ==
    LET seasonDescriptions == descriptions[SeasonOf(getMonth + 1)]
    IN  {seasonDescriptions[r + 1] : r \in RandomInt(Len(seasonDescriptions))}

\* the values of the expression
\* Math.random() < 0.25 ? Math.floor(Math.random() * 3) : 0
RainfallDraws == {IF lessThanQuarter THEN r ELSE 0 :
                    lessThanQuarter \in BOOLEAN, r \in RandomInt(3)}

\* private getReliableWeatherData(location), for one outcome of its random
\* draws: variation is Math.floor(Math.random() * 4), humidity is
\* Math.floor(Math.random() * 15), wind is Math.floor(Math.random() * 7)
getReliableWeatherData(location, variation, humidity, wind, rainfall, description) ==
    LET normalizedLocation == Trim(ToLowerCase(location))
        baseTemp == IF normalizedLocation \in DOMAIN baseTemps
                    THEN baseTemps[normalizedLocation] ELSE 27
    IN  [temperature |-> baseTemp + (variation - 2),
         humidity |-> 65 + humidity,
         description |-> description,
         windSpeed |-> 8 + wind,
         rainfall |-> rainfall,
         city |-> Capitalize(location),
         country |-> "IN",
         icon |-> "01d",
         source |-> "Climate Database"]

\* every reading getReliableWeatherData(location) can return, whatever the
\* month
ReliableWeatherData(location) ==
    {getReliableWeatherData(location, v, h, w, rain, d) :
        v \in RandomInt(4), h \in RandomInt(15), w \in RandomInt(7),
        rain \in RainfallDraws,
        d \in UNION {getSeasonalDescription(getMonth) : getMonth \in 0..11}}

(***************************************************************************)
(* The upstream provider, as getCurrentWeather sees it                     *)
(***************************************************************************)
\* a string property that is absent, for strings held as sequences
UndefinedString == <<None>>

\* the settled or pending promise of fetch(...): "pending", "rejected", or
\* "fulfilled" with the status and the content-type header of the response
\* (None when the header is absent)
FetchPending == [state |-> "pending", status |-> 0, contentType |-> None]
FetchRejected == [state |-> "rejected", status |-> 0, contentType |-> None]
FetchOutcomes ==
    {FetchRejected}
    \cup [state : {"fulfilled"}, status : {200, 404},
          contentType : {"application/json; charset=utf-8", "text/html", None}]

\* Response.ok
Ok(response) == response.status \in 200..299

\* contentType.includes('application/json'), over the content types above
IncludesApplicationJson(contentType) ==
    contentType \in {"application/json; charset=utf-8"}

\* the value response.json() resolves to.  An object is held flat: main,
\* weather, wind, rain and sys say whether data.main, ... exist (weather is
\* the length of data.weather, -1 when it is absent); temp is in tenths of a
\* degree, speed in tenths of m/s, rain1h in mm.
NoData ==
    [json |-> "none", main |-> FALSE, temp |-> Undefined,
     humidity |-> Undefined, weather |-> 0 - 1, description |-> None,
     icon |-> None, wind |-> FALSE, speed |-> Undefined, rain |-> FALSE,
     rain1h |-> Undefined, name |-> UndefinedString, sys |-> FALSE,
     country |-> None]

\* a complete body
DataComplete ==
    [json |-> "object", main |-> TRUE, temp |-> 285, humidity |-> 70,
     weather |-> 1, description |-> "clear sky", icon |-> "01d",
     wind |-> TRUE, speed |-> 25, rain |-> FALSE, rain1h |-> Undefined,
     name |-> <<"M", "u", "m", "b", "a", "i">>, sys |-> TRUE, country |-> "IN"]

\* the bodies the provider answers with
JsonBodies ==
    {DataComplete,
     [DataComplete EXCEPT !.temp = 0 - 5, !.wind = FALSE, !.speed = Undefined,
                          !.rain = TRUE, !.rain1h = 12,
                          !.description = "light rain", !.icon = "10d"],
     [DataComplete EXCEPT !.speed = 0, !.rain = TRUE],
     [NoData EXCEPT !.json = "null"],
     [DataComplete EXCEPT !.main = FALSE, !.temp = Undefined,
                          !.humidity = Undefined],
     [DataComplete EXCEPT !.weather = 0 - 1, !.description = None,
                          !.icon = None],
     [DataComplete EXCEPT !.weather = 0, !.description = None, !.icon = None],
     [DataComplete EXCEPT !.sys = FALSE, !.country = None],
     [DataComplete EXCEPT !.temp = Undefined],
     [NoData EXCEPT !.json = "object", !.main = TRUE, !.weather = 1,
                    !.sys = TRUE]}

\* the settled or pending promise of response.json()
JsonPending == [state |-> "pending", data |-> NoData]
JsonRejected == [state |-> "rejected", data |-> NoData]
JsonOutcomes ==
    {JsonRejected} \cup [state : {"fulfilled"}, data : JsonBodies]

\* Math.round of a number given in tenths; NaN for undefined
MathRoundTenths(x) == IF x = Undefined THEN NaN ELSE (x + 5) \div 10

\* Math.round(data.wind?.speed * 3.6 || 0), speed in tenths of m/s
WindSpeedKmh(data) ==
    IF ~data.wind \/ data.speed = Undefined \/ data.speed = 0 THEN 0
    ELSE (36 * data.speed + 50) \div 100

\* data.rain?.['1h'] || 0
RainfallOf(data) ==
    IF ~data.rain \/ data.rain1h = Undefined THEN 0 ELSE data.rain1h

\* building the object literal of lines 44-54 throws a TypeError: it reads
\* a property of undefined or of null
MappingThrows(data) ==
    \/ data.json = "null"
    \/ ~data.main
    \/ data.weather < 1
    \/ ~data.sys

\* the object literal of lines 44-54
UpstreamReading(data) ==
    [temperature |-> MathRoundTenths(data.temp),
     humidity |-> data.humidity,
     description |-> data.description,
     windSpeed |-> WindSpeedKmh(data),
     rainfall |-> RainfallOf(data),
     city |-> data.name,
     country |-> data.country,
     icon |-> data.icon,
     source |-> "OpenWeatherMap"]

(***************************************************************************)
(* GET /api/weather/:location, after getCurrentWeather has returned        *)
(***************************************************************************)
\* description.includes('clear'), over the descriptions above
IncludesClear(description) == description \in {"clear sky"}

\* getAgriculturalInsights throws a TypeError: it calls includes on an
\* undefined description
InsightsThrow(weather) ==
    /\ ~GT(weather.rainfall, 10)
    /\ LT(weather.rainfall, 1)
    /\ weather.description = None

\* getAgriculturalInsights(weather, state); every advice is pushed in Hindi
\* and in English
getAgriculturalInsights(weather) ==
    (IF GT(weather.temperature, 35)
        THEN <<"high temperature (hi)", "high temperature (en)">>
     ELSE IF GT(weather.temperature, 30)
        THEN <<"warm weather (hi)", "warm weather (en)">>
     ELSE IF LT(weather.temperature, 15)
        THEN <<"cool weather (hi)", "cool weather (en)">>
     ELSE <<>>)
    \o (IF GT(weather.humidity, 80)
           THEN <<"high humidity (hi)", "high humidity (en)">>
        ELSE IF LT(weather.humidity, 40)
           THEN <<"low humidity (hi)", "low humidity (en)">>
        ELSE <<>>)
    \o (IF GT(weather.rainfall, 10)
           THEN <<"heavy rainfall (hi)", "heavy rainfall (en)">>
        ELSE IF LT(weather.rainfall, 1) /\ IncludesClear(weather.description)
           THEN <<"clear weather (hi)", "clear weather (en)">>
        ELSE <<>>)

\* getCropRecommendations(weather, state) when Date.getMonth() is getMonth
getCropRecommendations(weather, getMonth) ==
    IF getMonth >= 5 /\ getMonth <= 8
    THEN <<"Kharif crops recommended">>
         \o (IF GT(weather.rainfall, 5) THEN <<"Good monsoon conditions">>
             ELSE <<>>)
    ELSE IF getMonth >= 10 \/ getMonth <= 2
    THEN <<"Rabi crops recommended">>
         \o (IF LT(weather.temperature, 25) THEN <<"Ideal temperature">>
             ELSE <<>>)
    ELSE <<"Zaid crops recommended">>

\* getCurrentWeather has not returned yet
NoReading ==
    [temperature |-> Undefined, humidity |-> Undefined, description |-> None,
     windSpeed |-> Undefined, rainfall |-> Undefined,
     city |-> UndefinedString, country |-> None, icon |-> None,
     source |-> None]

\* no response sent yet
NoWeatherResponse ==
    [code |-> 0, status |-> None, message |-> None, current |-> NoReading,
     insights |-> <<>>, recommendations |-> <<>>]

\* the catch block of the route: res.status(500).json(...)
WeatherFailure ==
    [code |-> 500, status |-> None, message |-> "Failed to fetch weather data",
     current |-> NoReading, insights |-> <<>>, recommendations |-> <<>>]

\* lines 120-148 of the route: the three calls on weatherService, then
\* res.json; calling a method the class does not declare throws a TypeError
\* that the catch block answers
WeatherResponse(reading, getMonth) ==
    IF InsightsThrow(reading) THEN WeatherFailure
    ELSE IF "getPestDiseaseAlert" \notin WeatherServiceMethods
    THEN WeatherFailure
    ELSE [code |-> 200, status |-> "success",
          message |-> "Real weather data for location",
          current |-> reading,
          insights |-> getAgriculturalInsights(reading),
          recommendations |-> getCropRecommendations(reading, getMonth)]

(***************************************************************************)
(* State                                                                   *)
(***************************************************************************)
VARIABLES
    pc,           \* what the server is doing: "idle", "soilResponded",
                  \* "awaitFetch", "awaitJson", "gotWeather", "weatherResponded"
    soilBody,     \* req.body of the soil-analysis request being served
    soilRes,      \* the response sent to it
    primaryApiKey,\* WeatherService.primaryApiKey, None when the variable
                  \* OPENWEATHER_API_KEY is not set
    location,     \* req.params.location of the weather request being served
    normalizedLocation, \* the local of getCurrentWeather, the q= of the URL
    fetchCount,   \* calls of fetch made by the current getCurrentWeather
    response,     \* the promise of fetch(...) and, once fulfilled, response
    json,         \* the promise of response.json() and, once fulfilled, data
    waited,       \* seconds the pending promise has been awaited so far
    weatherData,  \* what getCurrentWeather returned to the route
    weatherRes,   \* the response the route sent
    previous      \* what an earlier call of getCurrentWeather was asked and
                  \* what it returned, for comparing two calls

vars == <<pc, soilBody, soilRes, primaryApiKey, location, normalizedLocation,
          fetchCount, response, json, waited, weatherData, weatherRes,
          previous>>

soilVars == <<soilBody, soilRes>>

weatherVars == <<location, normalizedLocation, fetchCount, response, json,
                 waited, weatherData, weatherRes>>

\* req.body with every scored field absent
EmptySoilBody ==
    [pH |-> Undefined, nitrogen |-> Undefined, phosphorus |-> Undefined,
     potassium |-> Undefined, organicMatter |-> Undefined]

\* no response sent yet
NoSoilResponse ==
    [status |-> 0, success |-> FALSE, healthScore |-> 0,
     recommendations |-> <<>>, alerts |-> <<>>]

\* longest wait for the provider that is followed, in seconds
MaxWait == 6

\* the locations requested: a city of both tables, the same with a leading
\* blank and a capital, a city of baseTemps only, a city of indianCities
\* only, a city of neither, the same with a capital
Locations ==
    {<<"m", "u", "m", "b", "a", "i">>, <<" ", "M", "u", "m", "b", "a", "i">>, <<"p", "a", "t", "n", "a">>, <<"t", "h", "a", "n", "e">>, <<"g", "o", "a">>, <<"G", "o", "a">>}

\* no call remembered
NoPrevious ==
    [location |-> UndefinedString, normalizedLocation |-> <<>>,
     city |-> UndefinedString, country |-> None, source |-> None]

Init ==
    /\ pc = "idle"
    /\ soilBody = EmptySoilBody
    /\ soilRes = NoSoilResponse
    /\ primaryApiKey \in {None, "key"}
    /\ location = <<>>
    /\ normalizedLocation = <<>>
    /\ fetchCount = 0
    /\ response = FetchPending
    /\ json = JsonPending
    /\ waited = 0
    /\ weatherData = NoReading
    /\ weatherRes = NoWeatherResponse
    /\ previous = NoPrevious

\* app.post("/api/soil-analysis", ...): the handler has no await, it runs
\* from the request to res.json in one step
PostSoilAnalysis ==
    /\ pc = "idle"
    /\ \E body \in SoilBodies :
        /\ soilBody' = body
        /\ soilRes' = SoilResponse(body)
    /\ pc' = "soilResponded"
    /\ UNCHANGED <<primaryApiKey, previous, weatherVars>>

\* the request is over; nothing of it is kept
SoilRequestEnds ==
    /\ pc = "soilResponded"
    /\ pc' = "idle"
    /\ soilBody' = EmptySoilBody
    /\ soilRes' = NoSoilResponse
    /\ UNCHANGED <<primaryApiKey, previous, weatherVars>>

\* return this.getReliableWeatherData(location): getCurrentWeather returns
\* one of the fallback readings to the route
ReturnFallback(loc) ==
    /\ \E reading \in ReliableWeatherData(loc) : weatherData' = reading
    /\ pc' = "gotWeather"

\* GET /api/weather/:location with no key configured: getCurrentWeather
\* skips the fetch and returns the fallback without waiting
GetWeatherWithoutKey ==
    /\ pc = "idle"
    /\ primaryApiKey = None
    /\ \E loc \in Locations :
        /\ location' = loc
        /\ normalizedLocation' = normalizeLocation(loc)
        /\ ReturnFallback(loc)
    /\ UNCHANGED <<primaryApiKey, previous, soilVars, fetchCount, response, json,
                   waited, weatherRes>>

\* GET /api/weather/:location with a key configured: getCurrentWeather
\* calls fetch and waits for its promise
GetWeatherWithKey ==
    /\ pc = "idle"
    /\ primaryApiKey # None
    /\ \E loc \in Locations :
        /\ location' = loc
        /\ normalizedLocation' = normalizeLocation(loc)
    /\ fetchCount' = fetchCount + 1
    /\ response' = FetchPending
    /\ pc' = "awaitFetch"
    /\ UNCHANGED <<primaryApiKey, previous, soilVars, json, waited, weatherData,
                   weatherRes>>

\* getCurrentWeather is suspended in an await whose promise is pending
Waiting ==
    \/ pc = "awaitFetch" /\ response.state = "pending"
    \/ pc = "awaitJson" /\ json.state = "pending"

\* a second passes while the call waits: fetch is called without a signal
\* and no timer is set, so nothing of the program ends the wait
SecondPasses ==
    /\ Waiting
    /\ waited < MaxWait
    /\ waited' = waited + 1
    /\ UNCHANGED <<pc, primaryApiKey, previous, soilVars, location, normalizedLocation,
                   fetchCount, response, json, weatherData, weatherRes>>

\* the provider or the network settles the promise of fetch
FetchSettles ==
    /\ pc = "awaitFetch"
    /\ response.state = "pending"
    /\ \E outcome \in FetchOutcomes : response' = outcome
    /\ waited' = 0
    /\ UNCHANGED <<pc, primaryApiKey, previous, soilVars, location, normalizedLocation,
                   fetchCount, json, weatherData, weatherRes>>

ResumeAfterFetchRetry ==
    /\ pc = "awaitFetch"
    /\ response.state # "pending"
    /\ IF /\ response.state = "fulfilled"
          /\ Ok(response)
          /\ response.contentType # None
          /\ IncludesApplicationJson(response.contentType)
       THEN /\ json' = JsonPending
            /\ pc' = "awaitJson"
            /\ UNCHANGED <<response, weatherData, fetchCount>>
       ELSE IF fetchCount < 2
       THEN /\ fetchCount' = fetchCount + 1
            /\ response' = FetchPending
            /\ UNCHANGED <<pc, json, weatherData>>
       ELSE /\ ReturnFallback(location)
            /\ response' = FetchPending
            /\ UNCHANGED <<json, fetchCount>>
    /\ UNCHANGED <<primaryApiKey, previous, soilVars, location, normalizedLocation,
                   waited, weatherRes>>

\* getCurrentWeather resumes after await fetch(...): a rejection is caught
\* and logged; a response that is ok with a JSON content type is parsed;
\* anything else falls through to the fallback
ResumeAfterFetch ==
    /\ pc = "awaitFetch"
    /\ response.state # "pending"
    /\ IF /\ response.state = "fulfilled"
          /\ Ok(response)
          /\ response.contentType # None
          /\ IncludesApplicationJson(response.contentType)
       THEN /\ json' = JsonPending
            /\ pc' = "awaitJson"
            /\ UNCHANGED <<response, weatherData>>
       ELSE /\ ReturnFallback(location)
            /\ response' = FetchPending
            /\ UNCHANGED json
    /\ UNCHANGED <<primaryApiKey, previous, soilVars, location, normalizedLocation,
                   fetchCount, waited, weatherRes>>

\* the body arrives and is parsed, or fails to
JsonSettles ==
    /\ pc = "awaitJson"
    /\ json.state = "pending"
    /\ \E outcome \in JsonOutcomes : json' = outcome
    /\ waited' = 0
    /\ UNCHANGED <<pc, primaryApiKey, previous, soilVars, location, normalizedLocation,
                   fetchCount, response, weatherData, weatherRes>>

\* getCurrentWeather resumes after await response.json(): a rejection or a
\* TypeError of the mapping is caught and logged and the fallback is
\* returned; otherwise the mapped reading is returned
ResumeAfterJson ==
    /\ pc = "awaitJson"
    /\ json.state # "pending"
    /\ IF json.state = "rejected" \/ MappingThrows(json.data)
       THEN ReturnFallback(location)
       ELSE /\ weatherData' = UpstreamReading(json.data)
            /\ pc' = "gotWeather"
    /\ response' = FetchPending
    /\ json' = JsonPending
    /\ UNCHANGED <<primaryApiKey, previous, soilVars, location, normalizedLocation,
                   fetchCount, waited, weatherRes>>

\* the route resumes after await weatherService.getCurrentWeather(location)
\* and answers, in any month; its local weatherData is gone with it
RouteResponds ==
    /\ pc = "gotWeather"
    /\ \E res \in {WeatherResponse(weatherData, getMonth) : getMonth \in 0..11} :
        weatherRes' = res
    /\ weatherData' = NoReading
    /\ pc' = "weatherResponded"
    /\ UNCHANGED <<primaryApiKey, previous, soilVars, location, normalizedLocation,
                   fetchCount, response, json, waited>>

\* the request is over; nothing of it is kept
WeatherRequestEnds ==
    /\ pc = "weatherResponded"
    /\ pc' = "idle"
    /\ location' = <<>>
    /\ normalizedLocation' = <<>>
    /\ fetchCount' = 0
    /\ weatherData' = NoReading
    /\ weatherRes' = NoWeatherResponse
    /\ UNCHANGED <<primaryApiKey, previous, soilVars, response, json, waited>>

\* RouteResponds, with the call that has just returned remembered
RouteRespondsRemembered ==
    /\ pc = "gotWeather"
    /\ \E res \in {WeatherResponse(weatherData, getMonth) : getMonth \in 0..11} :
        weatherRes' = res
    /\ previous' = [location |-> location,
                    normalizedLocation |-> normalizedLocation,
                    city |-> weatherData.city,
                    country |-> weatherData.country,
                    source |-> weatherData.source]
    /\ weatherData' = NoReading
    /\ pc' = "weatherResponded"
    /\ UNCHANGED <<primaryApiKey, soilVars, location, normalizedLocation,
                   fetchCount, response, json, waited>>

Next ==
    \/ PostSoilAnalysis
    \/ SoilRequestEnds
    \/ GetWeatherWithoutKey
    \/ GetWeatherWithKey
    \/ SecondPasses
    \/ FetchSettles
    \/ ResumeAfterFetch
    \/ JsonSettles
    \/ ResumeAfterJson
    \/ RouteResponds
    \/ WeatherRequestEnds

Spec == Init /\ [][Next]_vars

\* the server without a key, serving weather requests one after the other
\* and remembering the earlier call
PairInit == Init /\ primaryApiKey = None

PairNext ==
    \/ GetWeatherWithoutKey
    \/ RouteRespondsRemembered
    \/ WeatherRequestEnds

PairSpec == PairInit /\ [][PairNext]_vars

(***************************************************************************)
(* Properties of POST /api/soil-analysis                                   *)
(***************************************************************************)
\* the elements of a sequence
Range(seq) == {seq[i] : i \in 1..Len(seq)}

\* the entries of seq appear in strictly increasing rank
InRankOrder(seq, rank) ==
    \A i, j \in 1..Len(seq) : i < j => rank[seq[i]] < rank[seq[j]]

\* the band table of the specification, one row per criterion
TablePH(v) == IF v \in 60..75 THEN 20 ELSE IF v \in 55..80 THEN 15 ELSE 5
TableNitrogen(v) == IF v \in 150..300 THEN 20 ELSE IF v >= 100 THEN 10 ELSE 0
TablePhosphorus(v) == IF v \in 15..40 THEN 20 ELSE IF v >= 10 THEN 10 ELSE 0
TablePotassium(v) == IF v \in 120..250 THEN 20 ELSE IF v >= 80 THEN 10 ELSE 0
TableOrganicMatter(v) == IF v >= 25 THEN 20 ELSE IF v >= 15 THEN 15 ELSE 5

TableSum(body) ==
    TablePH(body.pH) + TableNitrogen(body.nitrogen)
    + TablePhosphorus(body.phosphorus) + TablePotassium(body.potassium)
    + TableOrganicMatter(body.organicMatter)

\* every scored value of the sample lies in its best band
AllBestBand(body) ==
    /\ body.pH \in 60..75
    /\ body.nitrogen \in 150..300
    /\ body.phosphorus \in 15..40
    /\ body.potassium \in 120..250
    /\ body.organicMatter # Undefined /\ body.organicMatter >= 25

DeficiencyFlags ==
    SelectSeq(soilRes.recommendations, LAMBDA e : e # UreaAdvice)
        \o soilRes.alerts

\* the order the claim states
ClaimedRank ==
    [e \in {AcidityAdvice, AlkalinityAdvice} |-> 1]
    @@ (NitrogenAdvice :> 2) @@ (PhosphorusAdvice :> 3)
    @@ (PotassiumAdvice :> 4) @@ (OrganicMatterAdvice :> 5)
    @@ (CriticalAlert :> 6)

\* the order of the array literal of the handler
ArrayRank ==
    (NitrogenAdvice :> 1) @@ (PhosphorusAdvice :> 2) @@ (PotassiumAdvice :> 3)
    @@ (AcidityAdvice :> 4) @@ (AlkalinityAdvice :> 5)
    @@ (OrganicMatterAdvice :> 6) @@ (UreaAdvice :> 7)

\* C3 as stated: the flags appear in the order pH, nitrogen, phosphorus,
\* potassium, organic matter, critical alert.
C3_FlagsPHFirst ==
    pc = "soilResponded" => InRankOrder(DeficiencyFlags, ClaimedRank)

\* C3 amended: the recommendations appear in the order nitrogen, phosphorus,
\* potassium, pH (low or high), organic matter, followed by the unconditional
\* urea recommendation, whatever subset is triggered; the critical alert is
\* not among them, it is the only entry of the separate alerts list when the
\* score is below 50.
C3_FlagsInArrayOrder ==
    pc = "soilResponded" =>
        /\ Range(soilRes.recommendations) \subseteq DOMAIN ArrayRank
        /\ InRankOrder(soilRes.recommendations, ArrayRank)
        /\ soilRes.healthScore < 50 => soilRes.alerts = <<CriticalAlert>>

\* a response carrying all five deficiency advisories and the critical alert
C3_Witness ==
    /\ pc = "soilResponded"
    /\ soilRes.recommendations =
         <<NitrogenAdvice, PhosphorusAdvice, PotassiumAdvice, AlkalinityAdvice,
           OrganicMatterAdvice, UreaAdvice>>
    /\ soilRes.alerts = <<CriticalAlert>>

\* C4: each deficiency advisory is in the response exactly when the measured
\* value is below (for alkalinity: above) its own threshold, and the acidity
\* and alkalinity advisories never come together.
C4_AdvisoryIffThreshold ==
    pc = "soilResponded" =>
        LET given(f) == soilBody[f] # Undefined
            flags == Range(soilRes.recommendations)
        IN  /\ NitrogenAdvice \in flags
                <=> (given("nitrogen") /\ soilBody.nitrogen < 150)
            /\ PhosphorusAdvice \in flags
                <=> (given("phosphorus") /\ soilBody.phosphorus < 15)
            /\ PotassiumAdvice \in flags
                <=> (given("potassium") /\ soilBody.potassium < 120)
            /\ AcidityAdvice \in flags
                <=> (given("pH") /\ soilBody.pH < 60)
            /\ AlkalinityAdvice \in flags
                <=> (given("pH") /\ soilBody.pH > 80)
            /\ OrganicMatterAdvice \in flags
                <=> (given("organicMatter") /\ soilBody.organicMatter < 20)
            /\ ~(AcidityAdvice \in flags /\ AlkalinityAdvice \in flags)

\* nitrogen in its second score band still gets its advisory, organic
\* matter in its second score band above 2.0 % gets none
C4_Witness ==
    /\ pc = "soilResponded"
    /\ soilBody.nitrogen = 149 /\ soilBody.organicMatter = 20
    /\ soilBody.pH = 81
    /\ NitrogenAdvice \in Range(soilRes.recommendations)
    /\ OrganicMatterAdvice \notin Range(soilRes.recommendations)

\* C5: the critical alert is in the response exactly when the healthScore of
\* that response is below 50.
C5_CriticalIffBelowFifty ==
    pc = "soilResponded" =>
        (CriticalAlert \in Range(soilRes.alerts) <=> soilRes.healthScore < 50)

\* a response with healthScore exactly 50 and no alert
C5_Witness ==
    /\ pc = "soilResponded"
    /\ soilRes.healthScore = 50
    /\ soilRes.alerts = <<>>

\* C6: the healthScore of every response, samples with absent or extreme
\* values included, is an integer between 0 and 100.
C6_ScoreInRange ==
    pc = "soilResponded" => soilRes.healthScore \in 0..100

\* the sample with every field absent has been scored
C6_Witness ==
    /\ pc = "soilResponded"
    /\ soilBody = EmptySoilBody
    /\ soilRes.healthScore = 10

\* the sample with every absent field replaced by the value 0, which lies in
\* the worst band of every criterion
WorstFilled(body) ==
    [f \in DOMAIN body |-> IF body[f] = Undefined THEN 0 ELSE body[f]]

\* C7 as stated: a request with absent fields is answered with success, and
\* an absent field counts like a worst-band value: it scores the minimum of
\* its criterion and its deficiency advisory is in the response.
C7_MissingIsWorstBand ==
    pc = "soilResponded" =>
        /\ soilRes.status = 200 /\ soilRes.success
        /\ soilRes.healthScore = MathMin(HealthScore(WorstFilled(soilBody)), 100)
        /\ soilRes.recommendations = Recommendations(WorstFilled(soilBody))

(***************************************************************************)
(* Properties of WeatherService.getCurrentWeather and of the weather route *)
(***************************************************************************)
\* the body has none of the causes of a failed mapping: it is an object and
\* every property the reading is built from is there (wind and rain are
\* optional, they default to 0)
HasMappedFields(data) ==
    /\ data.json = "object"
    /\ data.main /\ data.temp # Undefined /\ data.humidity # Undefined
    /\ data.weather >= 1 /\ data.description # None /\ data.icon # None
    /\ data.name # UndefinedString
    /\ data.sys /\ data.country # None

\* the upstream attempt of the call that is about to return has failed: no
\* key, a rejected fetch, a status that is not 2xx, a content type that is
\* not JSON, a body that does not parse or lacks mapped fields
UpstreamFailed ==
    \/ primaryApiKey = None
    \/ /\ pc = "awaitFetch"
       /\ \/ response.state = "rejected"
          \/ ~Ok(response)
          \/ response.contentType = None
          \/ ~IncludesApplicationJson(response.contentType)
    \/ /\ pc = "awaitJson"
       /\ \/ json.state = "rejected"
          \/ ~HasMappedFields(json.data)

\* getCurrentWeather returns to the route in this step
Returns == pc # "gotWeather" /\ pc' = "gotWeather"

\* C8 as stated: whenever getCurrentWeather returns, it returns the fallback
\* reading if the upstream attempt failed in any of the listed ways, and a
\* reading of the provider only if none of them happened.
C8_FallbackOnEveryFailure ==
    [][Returns =>
        weatherData'.source =
            (IF UpstreamFailed THEN "Climate Database" ELSE "OpenWeatherMap")]_vars

\* C9 as stated: once getCurrentWeather has returned a reading, the route
\* answers with the success payload, never with the 500 response.
C9_RouteAnswersSuccess ==
    pc = "weatherResponded" =>
        (weatherRes.code = 200 /\ weatherRes.status = "success")

\* C10 as stated: a call of getCurrentWeather that waits for the provider is
\* cut off by a timeout: however long a wait is followed, the call has
\* stopped waiting before the end of it.
C10_WaitIsCutOff ==
    Waiting => waited < MaxWait

(***************************************************************************)
(* Properties of the fallback reading                                      *)
(***************************************************************************)
\* getCurrentWeather has resumed from nothing yet and its next step returns
\* the fallback reading for location
FallbackImminent ==
    \/ /\ pc = "awaitFetch"
       /\ response.state # "pending"
       /\ ~(/\ response.state = "fulfilled"
            /\ Ok(response)
            /\ response.contentType # None
            /\ IncludesApplicationJson(response.contentType))
    \/ /\ pc = "awaitJson"
       /\ json.state # "pending"
       /\ (json.state = "rejected" \/ MappingThrows(json.data))

\* the base temperature the documentation gives a location: the table value
\* of the lowercased, trimmed location, 27 when the table has none
DocumentedBase(loc) ==
    IF Trim(ToLowerCase(loc)) \in DOMAIN baseTemps
    THEN baseTemps[Trim(ToLowerCase(loc))] ELSE 27

\* C11 as stated: the values the fallback reading can take are exactly the
\* documented ranges: temperature every integer from base - 2 to base + 2,
\* humidity every integer from 65 to 80, wind speed every integer from 8 to
\* 15, rainfall one of 0, 1, 2.
C11_FallbackRangesExact ==
    FallbackImminent =>
        LET readings == ReliableWeatherData(location)
        IN  /\ {r.temperature : r \in readings} =
                 {DocumentedBase(location) + d : d \in (0 - 2)..2}
            /\ {r.humidity : r \in readings} = 65..80
            /\ {r.windSpeed : r \in readings} = 8..15
            /\ {r.rainfall : r \in readings} \subseteq {0, 1, 2}

(***************************************************************************)
(* Properties of the outbound request                                      *)
(***************************************************************************)
\* C12: within one call of getCurrentWeather at most one request goes out:
\* exactly one when a key is configured, none when no key is configured;
\* a call that has returned, with the fallback after a failed attempt or
\* with the reading of the provider, has still made that one request only.
C12_OneRequestPerCall ==
    /\ fetchCount <= 1
    /\ pc \in {"awaitFetch", "awaitJson"} => fetchCount = 1
    /\ pc \in {"gotWeather", "weatherResponded"} =>
         fetchCount = (IF primaryApiKey # None THEN 1 ELSE 0)

\* a call with a key has returned the fallback after its one request failed
C12_Witness ==
    /\ pc = "gotWeather"
    /\ primaryApiKey # None
    /\ weatherData.source = "Climate Database"
    /\ fetchCount = 1

(***************************************************************************)
(* Properties of two calls of getCurrentWeather                            *)
(***************************************************************************)
\* lowercased and trimmed, as normalizeLocation and getReliableWeatherData
\* do it
Normalised(loc) == Trim(ToLowerCase(loc))

\* a call is remembered and another call has just returned its reading
TwoCalls == previous # NoPrevious /\ pc = "gotWeather"

\* the two calls were given locations with the same normalised form
SameNormalisedForm == Normalised(previous.location) = Normalised(location)

====
